---- MODULE Spec2Model ----
(***************************************************************************)
(* A model of the bowling HTTP service: the game store (routes.py globals  *)
(* games and game_id_counter), the request handlers create_game,           *)
(* record_roll, get_score and get_summary, and the score calculator        *)
(* calculate_current_score (helper.py).                                    *)
(*                                                                         *)
(* Spec     : requests are handled one at a time (each handler is one      *)
(*            atomic action).                                              *)
(* SpecConc : create_game and record_roll run in several threads, their    *)
(*            accesses to the shared globals interleaved.                  *)
(***************************************************************************)
EXTENDS Integers, Sequences, FiniteSets, TLC

\* ------------------------------------------------------------------ bounds
\* The number of games created in a run.
MaxGames == 2
\* The number of rolls stored in a run, all games together.
MaxRolls == 3
\* The number of request threads of SpecConc, and the number of rolls stored
\* when a thread starts a record_roll request.
NThreads == 2
MaxConcRolls == 2
\* The number of rolls stored in the one game of SpecLong.
MaxFrameRolls == 11

\* The pin counts requests are drawn from (in range), and the integers used
\* for malformed requests (out of range on either side).
PinValues == {0, 1, 5, 9, 10}
BadPinValues == {-1, 11}

VARIABLES
    games,            \* routes.py:9   game id -> list of recorded rolls
    game_id_counter,  \* routes.py:8   the next game id
    response,         \* the request last answered and its answer
    pc,               \* SpecConc: where each request thread stands
    local             \* SpecConc: the local variables of each thread

vars == <<games, game_id_counter, response, pc, local>>

\* --------------------------------------------------------- JSON payloads
\* The value of data.get('roll'): None (key absent or null), a value that
\* is no list (a string, a number, an object), or a list of elements.  An
\* element is an int, a float (v is its integral value), a bool (v is 0 or
\* 1, as Python compares it), a string or null.
Elem(t, v) == [t |-> t, v |-> v]
IntElem(n) == Elem("int", n)
StrElem == Elem("str", 0)
NullElem == Elem("null", 0)
FloatElem(n) == Elem("float", n)
TrueElem == Elem("bool", 1)

RollNone == [kind |-> "none", elems |-> <<>>]
RollNonList == [kind |-> "nonlist", elems |-> <<>>]
RollList(es) == [kind |-> "list", elems |-> es]
\* The roll field of the answers of requests that carry no roll.
NoRoll == [kind |-> "n/a", elems |-> <<>>]

NonIntElems == {StrElem, NullElem, TrueElem}

\* The payloads of the requests to game 1: every shape the structural
\* check tells apart.
Candidates ==
    {RollNone, RollNonList, RollList(<<>>)}
    \cup {RollList(<<e>>) : e \in {IntElem(1), IntElem(3)}}
    \cup {RollList(<<IntElem(f), IntElem(p)>>) :
            f \in {1, 2}, p \in PinValues \cup BadPinValues}
    \cup {RollList(<<IntElem(f), IntElem(5)>>) : f \in {0, 3}}
    \cup {RollList(<<e, IntElem(5)>>) : e \in {StrElem, FloatElem(1)}}
    \cup {RollList(<<IntElem(1), e>>) : e \in NonIntElems \cup {FloatElem(5)}}
    \cup {RollList(<<IntElem(1), IntElem(2), IntElem(3)>>)}

\* The payloads of the requests to the other game ids: a few rolls, one of
\* them malformed.
OtherCandidates ==
    {RollList(<<>>), RollList(<<IntElem(1), IntElem(5)>>),
     RollList(<<IntElem(2), IntElem(5)>>), RollList(<<IntElem(1), IntElem(10)>>)}

CandidatesFor(game_id) == IF game_id = 1 THEN Candidates ELSE OtherCandidates

\* The game ids requests are drawn from: the ids a run creates and one more.
GameIds == 1..(MaxGames + 1)

\* ------------------------------------------------------------- answers
Answer(op, game_id, roll, status, error, records, score, score_list) ==
    [op |-> op, game_id |-> game_id, roll |-> roll, status |-> status,
     error |-> error, records |-> records, score |-> score,
     score_list |-> score_list]

NoAnswer == Answer("none", 0, NoRoll, 0, "", <<>>, 0, {})

\* ---------------------------------------------------- routes.py record_roll
\* x in [1, 2]: Python compares by ==, so 1.0 and True are in the list.
InOneTwo(e) == e.t \in {"int", "float", "bool"} /\ e.v \in {1, 2}

\* x < 0 and x > 10 raise TypeError for a string or None.
Orderable(e) == e.t \in {"int", "float", "bool"}

\* The check of lines 75-82, its operands evaluated left to right with
\* short-circuit "or": "ok", "invalid" (the check is true), or the
\* exception an operand raises.
StructuralCheck(roll) ==
    IF roll.kind = "none" THEN "invalid"
    ELSE IF roll.kind # "list" THEN "invalid"
    ELSE IF Len(roll.elems) < 1 THEN "IndexError"
    ELSE IF ~InOneTwo(roll.elems[1]) THEN "invalid"
    ELSE IF Len(roll.elems) < 2 THEN "IndexError"
    ELSE IF ~Orderable(roll.elems[2]) THEN "TypeError"
    ELSE IF roll.elems[2].v < 0 THEN "invalid"
    ELSE IF roll.elems[2].v > 10 THEN "invalid"
    ELSE IF Len(roll.elems) # 2 THEN "invalid"
    ELSE IF roll.elems[1].t # "int" THEN "invalid"
    ELSE IF roll.elems[2].t # "int" THEN "invalid"
    ELSE "ok"

\* The roll as stored: the pair (frame_position, pins) of a payload that
\* passed the structural check.
AsRoll(roll) == <<roll.elems[1].v, roll.elems[2].v>>

\* Line 86: the last roll, or the sentinel [0, 0].
LastRoll(rolls) == IF Len(rolls) > 0 THEN rolls[Len(rolls)] ELSE <<0, 0>>

\* Lines 92-97 without the check of line 96 (a second ball after a strike).
FrameRuleViolated_NoStrikeCheck(last_roll, roll) ==
    \/ (last_roll[1] = 2 /\ roll[1] = 2)
    \/ (last_roll[1] = 1 /\ last_roll[2] < 10 /\ roll[1] = 1)
    \/ (last_roll[1] = 0 /\ roll[1] = 2)

\* Lines 92-97 without the check of line 93 (a first ball after a first ball
\* of fewer than 10 pins).
FrameRuleViolated_NoFirstBallCheck(last_roll, roll) ==
    \/ (last_roll[1] = 2 /\ roll[1] = 2)
    \/ (last_roll[1] = 0 /\ roll[1] = 2)
    \/ (last_roll[1] = 1 /\ last_roll[2] = 10 /\ roll[1] = 2)

\* Lines 92-97 with line 92 rejecting every roll after a second ball.
FrameRuleViolated_AfterSecondBall(last_roll, roll) ==
    \/ (last_roll[1] = 2)
    \/ (last_roll[1] = 1 /\ last_roll[2] < 10 /\ roll[1] = 1)
    \/ (last_roll[1] = 0 /\ roll[1] = 2)
    \/ (last_roll[1] = 1 /\ last_roll[2] = 10 /\ roll[1] = 2)

\* Lines 92-97.
FrameRuleViolated(last_roll, roll) ==
    \/ (last_roll[1] = 2 /\ roll[1] = 2)
    \/ (last_roll[1] = 1 /\ last_roll[2] < 10 /\ roll[1] = 1)
    \/ (last_roll[1] = 0 /\ roll[1] = 2)
    \/ (last_roll[1] = 1 /\ last_roll[2] = 10 /\ roll[1] = 2)

\* Line 101 with >= for >.
FrameOverflow_AtLeast10(last_roll, roll) ==
    last_roll[1] = 1 /\ roll[1] = 2 /\ roll[2] + last_roll[2] >= 10

\* Line 101 adding last_roll[0] for last_roll[1].
FrameOverflow_WrongIndex(last_roll, roll) ==
    last_roll[1] = 1 /\ roll[1] = 2 /\ roll[2] + last_roll[1] > 10

\* Line 101.
FrameOverflow(last_roll, roll) ==
    last_roll[1] = 1 /\ roll[1] = 2 /\ roll[2] + last_roll[2] > 10

RollNumberInvalid(n) ==
    IF n = 1 THEN "roll number 1 invalid" ELSE "roll number 2 invalid"

\* Lines 75-83: "ok", the message of the 400 answer, or the exception.
StructuralDecision(roll) ==
    IF StructuralCheck(roll) = "invalid" THEN "Invalid roll input"
    ELSE StructuralCheck(roll)

\* Lines 75-102: the decision on a payload given the last roll read:
\* "ok", or the error message of the 400 answer, or the exception raised.
Validate(last_roll, roll) ==
    IF StructuralDecision(roll) # "ok" THEN StructuralDecision(roll)
    ELSE IF FrameRuleViolated(last_roll, AsRoll(roll))
         THEN RollNumberInvalid(AsRoll(roll)[1])
    ELSE IF FrameOverflow(last_roll, AsRoll(roll))
         THEN "Roll points cannot be greater than 10 in a frame"
    ELSE "ok"

Exceptions == {"IndexError", "TypeError", "UnboundLocalError", "APIError"}

\* The status of the answer: 200, 400 with the message, or 500 when the
\* handler raised.
StatusOf(decision) ==
    IF decision = "ok" THEN 200
    ELSE IF decision \in Exceptions THEN 500
    ELSE 400

TotalRolls(g) ==
    LET RECURSIVE Sum(_)
        Sum(S) == IF S = {} THEN 0
                  ELSE LET x == CHOOSE y \in S : TRUE
                       IN Len(g[x]) + Sum(S \ {x})
    IN Sum(DOMAIN g)

\* ------------------------------------- helper.py calculate_current_score
\* rolls[k][1] of the code: the pins of the roll at 0-based index k.
Pins(rolls, k) == rolls[k + 1][2]

\* Lines 43-44 with the pins of the next two rolls subtracted.
StrikeScore_BonusSubtracted(rolls, frame_index) ==
    10 - (IF frame_index + 1 < Len(rolls) THEN Pins(rolls, frame_index + 1) ELSE 0)
       - (IF frame_index + 2 < Len(rolls) THEN Pins(rolls, frame_index + 2) ELSE 0)

\* Lines 43-44: what a strike at frame_index adds.
StrikeScore(rolls, frame_index) ==
    10 + (IF frame_index + 1 < Len(rolls) THEN Pins(rolls, frame_index + 1) ELSE 0)
       + (IF frame_index + 2 < Len(rolls) THEN Pins(rolls, frame_index + 2) ELSE 0)

\* Line 51: what a spare at frame_index adds.
SpareScore(rolls, frame_index) ==
    10 + (IF frame_index + 2 < Len(rolls) THEN Pins(rolls, frame_index + 2) ELSE 0)

\* Line 58: what an open frame at frame_index adds (roll2 is present).
OpenScore(rolls, frame_index) ==
    Pins(rolls, frame_index) + Pins(rolls, frame_index + 1)

\* Lines 36-60: the while loop from frame_index on.  "where" is "unbound"
\* until line 39 first assigns it.  roll2 is None when no roll follows
\* roll1, and roll2[1] (lines 49, 58) then raises TypeError.
RECURSIVE ScoreLoop(_, _, _, _)
ScoreLoop(rolls, frame_index, current_score, where) ==
    IF ~(frame_index < Len(rolls))
    THEN [exc |-> "none", frame_index |-> frame_index,
          current_score |-> current_score, where |-> where]
    ELSE IF Pins(rolls, frame_index) = 10
    THEN ScoreLoop(rolls, frame_index + 1,
                   current_score + StrikeScore(rolls, frame_index), "Strike")
    ELSE IF ~(frame_index + 1 < Len(rolls))
    THEN [exc |-> "TypeError", frame_index |-> frame_index,
          current_score |-> current_score, where |-> "Open frame"]
    ELSE IF Pins(rolls, frame_index) + Pins(rolls, frame_index + 1) = 10
    THEN ScoreLoop(rolls, frame_index + 2,
                   current_score + SpareScore(rolls, frame_index), "Spare")
    ELSE ScoreLoop(rolls, frame_index + 2,
                   current_score + OpenScore(rolls, frame_index), "Open frame")

\* Lines 31-63.  The result is the exception raised ("none" when the call
\* returns), the total and the breakdown: the dict scores as the set of its
\* entries, the key "frame_<n>" kept as n.  Line 61 reads "where", which no
\* line has assigned when the loop body never ran.
calculate_current_score(rolls) ==
    LET r == ScoreLoop(rolls, 0, 0, "unbound") IN
    IF r.exc # "none"
    THEN [exc |-> r.exc, total |-> 0, scores |-> {}]
    ELSE IF r.where = "unbound"
    THEN [exc |-> "UnboundLocalError", total |-> 0, scores |-> {}]
    ELSE [exc |-> "none", total |-> r.current_score,
          scores |-> {[frame |-> r.frame_index, score |-> r.current_score,
                       where |-> r.where]}]

\* Lines 45, 52, 59 with frame_index += 2 after a strike as well.
Advance_AlwaysTwo(rolls, frame_index) == 2

\* Lines 45, 52, 59: frame_index += 1 after a strike (roll1[1] == 10, the
\* frame_position is not read), frame_index += 2 after a spare or an open
\* frame.
Advance(rolls, frame_index) ==
    IF Pins(rolls, frame_index) = 10 THEN 1 ELSE 2

\* Lines 36-60: the values of frame_index at which an iteration of the while
\* loop starts, from frame_index on.  The iteration at a last roll of fewer
\* than 10 pins raises (roll2 is None) and is the last one.
RECURSIVE LoopStarts(_, _)
LoopStarts(rolls, frame_index) ==
    IF ~(frame_index < Len(rolls)) THEN {}
    ELSE IF Pins(rolls, frame_index) # 10 /\ ~(frame_index + 1 < Len(rolls))
    THEN {frame_index}
    ELSE {frame_index}
         \cup LoopStarts(rolls, frame_index + Advance(rolls, frame_index))

\* ------------------------------------------------------------- the store
Threads == 1..NThreads

\* The local variables of a request thread: game_id and roll of the request,
\* last_roll as read at line 86, tmp the counter value loaded by line 34,
\* and rolls, the list object bound at line 68, kept here once games[game_id]
\* was rebound to another list (orphan).
IdleLocal ==
    [game_id |-> 0, roll |-> NoRoll, last_roll |-> <<0, 0>>, tmp |-> 0,
     rolls |-> <<>>, orphan |-> FALSE]

Init ==
    /\ games = <<>>
    /\ game_id_counter = 1
    /\ response = NoAnswer
    /\ pc = [t \in Threads |-> "idle"]
    /\ local = [t \in Threads |-> IdleLocal]

\* games[game_id] = value (an existing entry is replaced).
Store(g, game_id, value) ==
    [k \in DOMAIN g \cup {game_id} |-> IF k = game_id THEN value ELSE g[k]]

\* ------------------------------------------- handlers, one request at a time
\* create_game without the increment of line 34.
create_game_NoIncrement ==
    /\ game_id_counter <= MaxGames
    /\ games' = Store(games, game_id_counter, <<>>)
    /\ game_id_counter' = game_id_counter
    /\ response' = Answer("create_game", game_id_counter, NoRoll, 201, "",
                          <<>>, 0, {})
    /\ UNCHANGED <<pc, local>>

\* routes.py:13-37
create_game ==
    /\ game_id_counter <= MaxGames
    /\ games' = Store(games, game_id_counter, <<>>)
    /\ game_id_counter' = game_id_counter + 1
    /\ response' = Answer("create_game", game_id_counter, NoRoll, 201, "",
                          <<>>, 0, {})
    /\ UNCHANGED <<pc, local>>

NotFound(op, game_id, roll) ==
    Answer(op, game_id, roll, 404, "Game not found", <<>>, 0, {})

\* record_roll with the payload checks ahead of the lookup of the game.
record_roll_ValidateFirst(game_id, roll) ==
    /\ IF StructuralDecision(roll) # "ok"
       THEN response' = Answer("record_roll", game_id, roll,
                               StatusOf(StructuralDecision(roll)),
                               StructuralDecision(roll), <<>>, 0, {})
       ELSE IF game_id \notin DOMAIN games
       THEN response' = NotFound("record_roll", game_id, roll)
       ELSE response' = Answer("record_roll", game_id, roll, 400,
                               RollNumberInvalid(AsRoll(roll)[1]), <<>>, 0, {})
    /\ UNCHANGED <<games, game_id_counter, pc, local>>

\* record_roll appending also the roll it rejects for frame overflow.
record_roll_AppendOnOverflow(game_id, roll) ==
    /\ IF game_id \notin DOMAIN games
       THEN /\ response' = NotFound("record_roll", game_id, roll)
            /\ UNCHANGED games
       ELSE LET decision == Validate(LastRoll(games[game_id]), roll) IN
            IF decision = "ok"
            THEN /\ TotalRolls(games) < MaxRolls
                 /\ games' = [games EXCEPT
                                ![game_id] = Append(@, AsRoll(roll))]
                 /\ response' = Answer("record_roll", game_id, roll, 200, "",
                                       games'[game_id], 0, {})
            ELSE /\ response' = Answer("record_roll", game_id, roll,
                                       StatusOf(decision), decision,
                                       <<>>, 0, {})
                 /\ IF /\ StructuralDecision(roll) = "ok"
                       /\ ~FrameRuleViolated(LastRoll(games[game_id]),
                                             AsRoll(roll))
                       /\ TotalRolls(games) < MaxRolls
                    THEN games' = [games EXCEPT
                                     ![game_id] = Append(@, AsRoll(roll))]
                    ELSE UNCHANGED games
    /\ UNCHANGED <<game_id_counter, pc, local>>

\* routes.py:41-108
record_roll(game_id, roll) ==
    /\ IF game_id \notin DOMAIN games
       THEN /\ response' = NotFound("record_roll", game_id, roll)
            /\ UNCHANGED games
       ELSE LET decision == Validate(LastRoll(games[game_id]), roll) IN
            IF decision = "ok"
            THEN /\ TotalRolls(games) < MaxRolls
                 /\ games' = [games EXCEPT
                                ![game_id] = Append(@, AsRoll(roll))]
                 /\ response' = Answer("record_roll", game_id, roll, 200, "",
                                       games'[game_id], 0, {})
            ELSE /\ response' = Answer("record_roll", game_id, roll,
                                       StatusOf(decision), decision,
                                       <<>>, 0, {})
                 /\ UNCHANGED games
    /\ UNCHANGED <<game_id_counter, pc, local>>

\* get_score with a scorer that consumes the list it is given (the rolls
\* popped as they are scored).
get_score_Consuming(game_id) ==
    /\ IF game_id \notin DOMAIN games
       THEN /\ response' = NotFound("get_score", game_id, NoRoll)
            /\ UNCHANGED games
       ELSE LET score == calculate_current_score(games[game_id]) IN
            /\ games' = [games EXCEPT ![game_id] = <<>>]
            /\ IF score.exc # "none"
               THEN response' = Answer("get_score", game_id, NoRoll, 500,
                                       score.exc, <<>>, 0, {})
               ELSE response' = Answer("get_score", game_id, NoRoll, 200, "",
                                       games[game_id], score.total,
                                       score.scores)
    /\ UNCHANGED <<game_id_counter, pc, local>>

\* routes.py:112-144
get_score(game_id) ==
    /\ IF game_id \notin DOMAIN games
       THEN response' = NotFound("get_score", game_id, NoRoll)
       ELSE LET score == calculate_current_score(games[game_id]) IN
            IF score.exc # "none"
            THEN response' = Answer("get_score", game_id, NoRoll, 500,
                                    score.exc, <<>>, 0, {})
            ELSE response' = Answer("get_score", game_id, NoRoll, 200, "",
                                    games[game_id], score.total, score.scores)
    /\ UNCHANGED <<games, game_id_counter, pc, local>>

\* routes.py:149-175 and helper.py:68-105.  The summary is the text the
\* completion request returns, or the request fails (api_ok is false) and
\* its exception leaves the handler.
get_summary(game_id, api_ok) ==
    /\ IF game_id \notin DOMAIN games
       THEN response' = NotFound("get_summary", game_id, NoRoll)
       ELSE LET score == calculate_current_score(games[game_id]) IN
            IF score.exc # "none"
            THEN response' = Answer("get_summary", game_id, NoRoll, 500,
                                    score.exc, <<>>, 0, {})
            ELSE IF ~api_ok
            THEN response' = Answer("get_summary", game_id, NoRoll, 500,
                                    "APIError", <<>>, 0, {})
            ELSE response' = Answer("get_summary", game_id, NoRoll, 200, "",
                                    <<>>, 0, {})
    /\ UNCHANGED <<games, game_id_counter, pc, local>>

Next ==
    \/ create_game
    \/ \E game_id \in GameIds :
         \E roll \in CandidatesFor(game_id) : record_roll(game_id, roll)
    \/ \E game_id \in GameIds : get_score(game_id)
    \/ \E game_id \in GameIds, api_ok \in BOOLEAN : get_summary(game_id, api_ok)

Spec == Init /\ [][Next]_vars

\* --------------------------------------------- handlers run by threads
\* Each action is the part of a handler between two accesses to the globals
\* games and game_id_counter; the handlers take no lock.

\* The payloads and game ids of the record_roll requests of the threads.
ConcCandidates ==
    {RollList(<<IntElem(1), IntElem(5)>>), RollList(<<IntElem(2), IntElem(5)>>),
     RollList(<<IntElem(1), IntElem(10)>>), RollList(<<>>)}

ConcGameIds == 1..MaxGames

\* routes.py:28   game_id = game_id_counter
cg_read(t) ==
    /\ pc[t] = "idle"
    /\ game_id_counter <= MaxGames
    /\ local' = [local EXCEPT ![t] = [IdleLocal EXCEPT !.game_id = game_id_counter]]
    /\ pc' = [pc EXCEPT ![t] = "cg_store"]
    /\ UNCHANGED <<games, game_id_counter, response>>

\* routes.py:31   games[game_id] = []
\* A thread between lines 68 and 105 of record_roll for this game keeps the
\* list it bound to rolls, which is no longer the game's.
cg_store(t) ==
    /\ pc[t] = "cg_store"
    /\ games' = Store(games, local[t].game_id, <<>>)
    /\ local' = [u \in Threads |->
                   IF /\ pc[u] = "rr_append"
                      /\ local[u].game_id = local[t].game_id
                      /\ ~local[u].orphan
                   THEN [local[u] EXCEPT !.orphan = TRUE,
                                         !.rolls = games[local[t].game_id]]
                   ELSE local[u]]
    /\ pc' = [pc EXCEPT ![t] = "cg_load"]
    /\ UNCHANGED <<game_id_counter, response>>

\* routes.py:34   game_id_counter += 1, the load of the global
cg_load(t) ==
    /\ pc[t] = "cg_load"
    /\ local' = [local EXCEPT ![t].tmp = game_id_counter]
    /\ pc' = [pc EXCEPT ![t] = "cg_incr"]
    /\ UNCHANGED <<games, game_id_counter, response>>

\* routes.py:34-37   game_id_counter += 1, the store of the global; the answer
cg_incr(t) ==
    /\ pc[t] = "cg_incr"
    /\ game_id_counter' = local[t].tmp + 1
    /\ response' = Answer("create_game", local[t].game_id, NoRoll, 201, "",
                          <<>>, 0, {})
    /\ local' = [local EXCEPT ![t] = IdleLocal]
    /\ pc' = [pc EXCEPT ![t] = "idle"]
    /\ UNCHANGED games

\* routes.py:60-86   up to the read of the last roll
rr_read(t, game_id, roll) ==
    /\ pc[t] = "idle"
    /\ TotalRolls(games) < MaxConcRolls
    /\ IF game_id \notin DOMAIN games
       THEN /\ response' = NotFound("record_roll", game_id, roll)
            /\ UNCHANGED <<pc, local>>
       ELSE IF StructuralDecision(roll) # "ok"
       THEN /\ response' = Answer("record_roll", game_id, roll,
                                  StatusOf(StructuralDecision(roll)),
                                  StructuralDecision(roll), <<>>, 0, {})
            /\ UNCHANGED <<pc, local>>
       ELSE /\ local' = [local EXCEPT ![t] =
                           [IdleLocal EXCEPT
                              !.game_id = game_id, !.roll = roll,
                              !.last_roll = LastRoll(games[game_id])]]
            /\ pc' = [pc EXCEPT ![t] = "rr_append"]
            /\ UNCHANGED response
    /\ UNCHANGED <<games, game_id_counter>>

\* routes.py:92-108   the frame checks on the last roll read, the append
rr_append(t) ==
    /\ pc[t] = "rr_append"
    /\ LET game_id == local[t].game_id
           roll == local[t].roll
           decision == Validate(local[t].last_roll, roll)
       IN IF decision = "ok"
          THEN /\ games' = [games EXCEPT
                              ![game_id] = Append(@, AsRoll(roll))]
               /\ response' = Answer("record_roll", game_id, roll, 200, "",
                                     IF local[t].orphan THEN local[t].rolls
                                     ELSE games'[game_id], 0, {})
          ELSE /\ response' = Answer("record_roll", game_id, roll,
                                     StatusOf(decision), decision,
                                     <<>>, 0, {})
               /\ UNCHANGED games
    /\ local' = [local EXCEPT ![t] = IdleLocal]
    /\ pc' = [pc EXCEPT ![t] = "idle"]
    /\ UNCHANGED game_id_counter

NextConc ==
    \E t \in Threads :
        \/ cg_read(t)
        \/ cg_store(t)
        \/ cg_load(t)
        \/ cg_incr(t)
        \/ \E game_id \in ConcGameIds, roll \in ConcCandidates :
             rr_read(t, game_id, roll)
        \/ rr_append(t)

SpecConc == Init /\ [][NextConc]_vars

\* ------------------------------------------------------- one long game
\* Games are created and rolls are recorded in game 1, one request at a
\* time, until its history holds MaxFrameRolls rolls: more than the 10
\* frames of a game of bowling.

\* The payloads of the requests: a strike, a first ball, the second balls
\* that fill the frame and overflow it, and a malformed payload.
LongCandidates ==
    {RollList(<<IntElem(1), IntElem(10)>>), RollList(<<IntElem(1), IntElem(5)>>),
     RollList(<<IntElem(2), IntElem(5)>>), RollList(<<IntElem(2), IntElem(9)>>),
     RollList(<<>>)}

\* routes.py:41-108, rolls accepted while the history is shorter than
\* MaxFrameRolls.
record_roll_long(game_id, roll) ==
    /\ IF game_id \notin DOMAIN games
       THEN /\ response' = NotFound("record_roll", game_id, roll)
            /\ UNCHANGED games
       ELSE LET decision == Validate(LastRoll(games[game_id]), roll) IN
            IF decision = "ok"
            THEN /\ Len(games[game_id]) < MaxFrameRolls
                 /\ games' = [games EXCEPT
                                ![game_id] = Append(@, AsRoll(roll))]
                 /\ response' = Answer("record_roll", game_id, roll, 200, "",
                                       games'[game_id], 0, {})
            ELSE /\ response' = Answer("record_roll", game_id, roll,
                                       StatusOf(decision), decision,
                                       <<>>, 0, {})
                 /\ UNCHANGED games
    /\ UNCHANGED <<game_id_counter, pc, local>>

NextLong ==
    \/ create_game
    \/ \E roll \in LongCandidates : record_roll_long(1, roll)

SpecLong == Init /\ [][NextLong]_vars

\* ================================================================ claims
\* What the claims speak of, said without the operators of the handlers.

\* A payload that is exactly a 2-element list of a frame_position in {1, 2}
\* and integer pins in 0..10.
WellFormed(roll) ==
    /\ roll.kind = "list"
    /\ Len(roll.elems) = 2
    /\ roll.elems[1].t = "int" /\ roll.elems[1].v \in {1, 2}
    /\ roll.elems[2].t = "int" /\ roll.elems[2].v \in 0..10

\* The answer is one to a record_roll request on a game that exists.
RollAnswered(r) == r.op = "record_roll" /\ r.game_id \in DOMAIN games

\* The answer is one to a get_score request on a game that exists.
ScoreAnswered(r) == r.op = "get_score" /\ r.game_id \in DOMAIN games

IsStrike(roll) == roll[1] = 1 /\ roll[2] = 10
IsFirstBall(roll) == roll[1] = 1 /\ roll[2] < 10
IsSecondBall(roll) == roll[1] = 2

\* The history is one the validator builds roll by roll.
ValidHistory(h) ==
    /\ \A i \in 1..Len(h) : h[i][1] \in {1, 2} /\ h[i][2] \in 0..10
    /\ Len(h) > 0 => h[1][1] = 1
    /\ \A i \in 1..(Len(h) - 1) :
         /\ IsFirstBall(h[i]) =>
              IsSecondBall(h[i + 1]) /\ h[i][2] + h[i + 1][2] <= 10
         /\ (IsStrike(h[i]) \/ IsSecondBall(h[i])) => h[i + 1][1] = 1

\* C1: get_score on an existing game with a validator-built history of at
\* least one roll always answers 200, also when the history ends in a first
\* ball of fewer than 10 pins (the missing second roll counts as 0 pins).
\* The history with no roll is the case of C2.
C1_ScoreNeverRaises ==
    (ScoreAnswered(response) /\ Len(games[response.game_id]) > 0)
        => response.status = 200

\* C2: for a game with no roll recorded the score is total 0 with a
\* breakdown of zero entries.
C2_EmptyHistoryScoresZero ==
    (ScoreAnswered(response) /\ games[response.game_id] = <<>>)
        => /\ response.status = 200
           /\ response.score = 0
           /\ response.score_list = {}

\* C3: under any interleaving of concurrent record_roll requests every roll
\* appended is one the validator accepts after the roll that precedes it in
\* the stored history (never a first ball after a first ball of fewer than
\* 10 pins, as in [[1,5],[1,5]]).
C3_AppendsSerialized ==
    [][\A g \in DOMAIN games :
         (g \in DOMAIN games' /\ Len(games'[g]) = Len(games[g]) + 1)
             => (ValidHistory(games[g]) => ValidHistory(games'[g]))]_vars

\* The roll a well-formed payload stands for.
PayloadRoll(roll) == <<roll.elems[1].v, roll.elems[2].v>>

\* The bowling rule for the roll that may follow history h.
Legal(h, roll) ==
    \/ /\ roll[1] = 1
       /\ (h = <<>> \/ IsSecondBall(h[Len(h)]) \/ IsStrike(h[Len(h)]))
    \/ /\ roll[1] = 2
       /\ h # <<>>
       /\ IsFirstBall(h[Len(h)])
       /\ h[Len(h)][2] + roll[2] <= 10

\* C4: a payload that is not a 2-element list of a frame_position in {1, 2}
\* and integer pins in 0..10, sent to an existing game, is answered 400
\* "Invalid roll input" and nothing else.
C4_MalformedRollIs400 ==
    (RollAnswered(response) /\ ~WellFormed(response.roll))
        => response.status = 400 /\ response.error = "Invalid roll input"

\* C5: a well-formed second ball [2,p] with no first ball before it in its
\* frame (no roll yet, the last roll a second ball, the last roll a strike) is
\* rejected with "roll number 2 invalid".
C5_SecondBallWithoutFirstRejected ==
    [][(/\ RollAnswered(response')
        /\ WellFormed(response'.roll)
        /\ PayloadRoll(response'.roll)[1] = 2
        /\ LET h == games[response'.game_id]
           IN h = <<>> \/ IsSecondBall(h[Len(h)]) \/ IsStrike(h[Len(h)]))
       => /\ response'.status = 400
          /\ response'.error = "roll number 2 invalid"
          /\ games' = games]_vars

C5_Witness ==
    /\ RollAnswered(response)
    /\ WellFormed(response.roll)
    /\ PayloadRoll(response.roll)[1] = 2
    /\ response.error = "roll number 2 invalid"
    /\ games[response.game_id] # <<>>
    /\ IsStrike(LastRoll(games[response.game_id]))

\* C6: a well-formed roll is accepted (200 and appended) exactly when the
\* bowling rule allows it after the history, and is otherwise answered 400
\* with the history unchanged; a first ball after a first ball of fewer than
\* 10 pins is rejected with "roll number 1 invalid".
C6_AcceptedIffLegal ==
    [][(RollAnswered(response') /\ WellFormed(response'.roll))
       => LET g == response'.game_id
              r == PayloadRoll(response'.roll)
          IN /\ Legal(games[g], r)
                  <=> /\ response'.status = 200
                      /\ games' = [games EXCEPT ![g] = Append(@, r)]
             /\ ~Legal(games[g], r)
                  => response'.status = 400 /\ games' = games
             /\ (r[1] = 1 /\ games[g] # <<>> /\ IsFirstBall(LastRoll(games[g])))
                  => response'.error = "roll number 1 invalid"]_vars

C6_Witness ==
    /\ RollAnswered(response)
    /\ response.status = 200
    /\ PayloadRoll(response.roll)[1] = 2
    /\ LET h == games[response.game_id]
       IN /\ Len(h) >= 2
          /\ h[Len(h)] = PayloadRoll(response.roll)
          /\ h[Len(h) - 1][2] + h[Len(h)][2] = 10

\* C7: a well-formed second ball whose pins plus the pins of the first ball
\* (fewer than 10) before it exceed 10 is rejected with "Roll points cannot
\* be greater than 10 in a frame" and the history is not extended.
C7_FrameOverflowRejected ==
    [][(/\ RollAnswered(response')
        /\ WellFormed(response'.roll)
        /\ PayloadRoll(response'.roll)[1] = 2
        /\ games[response'.game_id] # <<>>
        /\ IsFirstBall(LastRoll(games[response'.game_id]))
        /\ PayloadRoll(response'.roll)[2]
             + LastRoll(games[response'.game_id])[2] > 10)
       => /\ response'.status = 400
          /\ response'.error = "Roll points cannot be greater than 10 in a frame"
          /\ games' = games]_vars

C7_Witness ==
    /\ RollAnswered(response)
    /\ WellFormed(response.roll)
    /\ PayloadRoll(response.roll) = <<2, 5>>
    /\ games[response.game_id] # <<>>
    /\ LastRoll(games[response.game_id]) = <<1, 9>>
    /\ response.error = "Roll points cannot be greater than 10 in a frame"

\* C8: with requests handled one at a time every stored history is one the
\* validator builds roll by roll.
C8_StoredHistoriesValid == \A g \in DOMAIN games : ValidHistory(games[g])

C8_Witness ==
    \E g \in DOMAIN games :
        /\ Len(games[g]) >= 3
        /\ \E i \in 1..Len(games[g]) : IsStrike(games[g][i])
        /\ \E i \in 1..Len(games[g]) : IsSecondBall(games[g][i])

\* The score of the bowling rules, the frames told apart by frame_position:
\* the pins of the roll at index i (from 1), 0 when no such roll exists.
PinsOr0(h, i) == IF i <= Len(h) THEN h[i][2] ELSE 0

\* What the frame that starts at index i is worth.
FrameWorth(h, i) ==
    IF IsStrike(h[i]) THEN 10 + PinsOr0(h, i + 1) + PinsOr0(h, i + 2)
    ELSE IF h[i][2] + PinsOr0(h, i + 1) = 10 THEN 10 + PinsOr0(h, i + 2)
    ELSE h[i][2] + PinsOr0(h, i + 1)

RECURSIVE SumFrom(_, _, _)
SumFrom(F(_), i, n) == IF i > n THEN 0 ELSE F(i) + SumFrom(F, i + 1, n)

ExpectedTotal(h) ==
    LET Worth(i) == IF h[i][1] = 1 THEN FrameWorth(h, i) ELSE 0
    IN SumFrom(Worth, 1, Len(h))

SumPins(h) ==
    LET P(i) == h[i][2] IN SumFrom(P, 1, Len(h))

NoStrikeNoSpare(h) ==
    /\ \A i \in 1..Len(h) : ~IsStrike(h[i])
    /\ \A i \in 1..(Len(h) - 1) :
         ~(IsFirstBall(h[i]) /\ IsSecondBall(h[i + 1])
           /\ h[i][2] + h[i + 1][2] = 10)

\* C9: for a history of at least one roll with no strike and no spare the
\* total is the sum of the pins of all its rolls.
C9_OpenFrameTotalIsSumOfPins ==
    (/\ ScoreAnswered(response)
     /\ games[response.game_id] # <<>>
     /\ NoStrikeNoSpare(games[response.game_id]))
        => /\ response.status = 200
           /\ response.score = SumPins(games[response.game_id])

\* C10: in the total of a history every strike is worth 10 plus the pins of
\* the next two rolls, a roll not yet thrown counting 0 (the other frames
\* worth what the spare and open-frame rules give them).
C10_StrikeWorth ==
    (/\ ScoreAnswered(response)
     /\ \E i \in 1..Len(games[response.game_id]) :
          IsStrike(games[response.game_id][i]))
        => /\ response.status = 200
           /\ response.score = ExpectedTotal(games[response.game_id])

\* Whenever get_score answers 200 the total is the score of the bowling
\* rules.
TotalMatchesRulesWhenAnswered ==
    (ScoreAnswered(response) /\ response.status = 200)
        => response.score = ExpectedTotal(games[response.game_id])

TotalMatchesRulesWitness ==
    /\ ScoreAnswered(response) /\ response.status = 200
    /\ Len(games[response.game_id]) = 3
    /\ IsStrike(games[response.game_id][1])

\* A spare: a first ball of fewer than 10 pins at index i and the second ball
\* after it, 10 pins together.
IsSpareAt(h, i) ==
    /\ i + 1 <= Len(h)
    /\ IsFirstBall(h[i]) /\ IsSecondBall(h[i + 1])
    /\ h[i][2] + h[i + 1][2] = 10

\* C11: in the total of a history every spare frame is worth 10 plus the
\* pins of the roll that follows the frame, or 10 when no roll follows (the
\* other frames worth what the strike and open-frame rules give them).
C11_SpareWorth ==
    (/\ ScoreAnswered(response)
     /\ \E i \in 1..Len(games[response.game_id]) :
          IsSpareAt(games[response.game_id], i))
        => /\ response.status = 200
           /\ response.score = ExpectedTotal(games[response.game_id])

\* The index (from 1) at which the last frame of a history of at least one
\* roll starts.
LastFrameStart(h) ==
    CHOOSE i \in 1..Len(h) :
        h[i][1] = 1 /\ \A j \in (i + 1)..Len(h) : h[j][1] # 1

\* The label of the last frame.
LastFrameLabel(h) ==
    LET i == LastFrameStart(h) IN
    IF IsStrike(h[i]) THEN "Strike"
    ELSE IF h[i][2] + PinsOr0(h, i + 1) = 10 THEN "Spare"
    ELSE "Open frame"

\* The index the walk of the score calculator ends at: past a strike by 1,
\* past any other frame by 2.
FinalIndex(h) ==
    IF IsStrike(h[LastFrameStart(h)]) THEN LastFrameStart(h)
    ELSE LastFrameStart(h) + 1

\* C12: for a history of at least one roll the breakdown has exactly one
\* entry, keyed by the final index of the walk, holding the total returned
\* and the label of the last frame.
C12_BreakdownIsLastFrame ==
    (ScoreAnswered(response) /\ games[response.game_id] # <<>>)
        => /\ response.status = 200
           /\ response.score_list =
                {[frame |-> FinalIndex(games[response.game_id]),
                  score |-> response.score,
                  where |-> LastFrameLabel(games[response.game_id])]}

\* Whenever get_score answers 200 the breakdown is that single entry.
BreakdownMatchesWhenAnswered ==
    (ScoreAnswered(response) /\ response.status = 200)
        => response.score_list =
             {[frame |-> FinalIndex(games[response.game_id]),
               score |-> response.score,
               where |-> LastFrameLabel(games[response.game_id])]}


\* The handlers that address a game by its id.
GameOps == {"record_roll", "get_score", "get_summary"}

\* C13: record_roll, get_score and get_summary on a game id that create_game
\* never returned answer 404 "Game not found" whatever the roll payload is
\* (never a 400 validation error), and they neither create the game nor
\* change any stored history.
C13_UnknownGameIs404 ==
    [][(response'.op \in GameOps /\ response'.game_id \notin DOMAIN games)
         => /\ response'.status = 404
            /\ response'.error = "Game not found"
            /\ games' = games
            /\ game_id_counter' = game_id_counter]_vars

\* A record_roll with a malformed payload on an id never created, answered
\* 404 while another game holds rolls.
C13_Witness ==
    /\ response.op = "record_roll"
    /\ response.game_id \notin DOMAIN games
    /\ ~WellFormed(response.roll)
    /\ response.status = 404
    /\ \E g \in DOMAIN games : games[g] # <<>>


\* C14: when create_game requests run one at a time, the n-th call returns
\* game id n (the first returns 1), so no id is returned twice, and it
\* registers that id with an empty roll history while leaving every existing
\* game's history unchanged.
C14_CreateReturnsNextId ==
    [][response'.op = "create_game"
         => /\ response'.status = 201
            /\ response'.game_id = Cardinality(DOMAIN games) + 1
            /\ response'.game_id \notin DOMAIN games
            /\ DOMAIN games' = DOMAIN games \cup {response'.game_id}
            /\ games'[response'.game_id] = <<>>
            /\ \A g \in DOMAIN games : games'[g] = games[g]]_vars

\* The second create_game, answered while game 1 holds rolls.
C14_Witness ==
    /\ response.op = "create_game"
    /\ response.game_id = 2
    /\ games[2] = <<>>
    /\ Len(games[1]) >= 2


\* The handlers that call calculate_current_score.
ScoreOps == {"get_score", "get_summary"}

\* C15: calculate_current_score called twice on the same roll history yields
\* identical (total, breakdown) results, and the call leaves the roll history
\* and the game store unchanged: a request that scores a game changes neither
\* games nor the counter, and a get_score that follows a get_score on the
\* same game gets the same answer (total, breakdown or exception).
C15_ScoringReadsOnly ==
    [][response'.op \in ScoreOps
         => /\ games' = games
            /\ game_id_counter' = game_id_counter
            /\ (/\ response.op = "get_score"
                /\ response'.op = "get_score"
                /\ response'.game_id = response.game_id)
                 => response' = response]_vars

\* A get_score answered with a total on a history of a complete frame.
C15_Witness ==
    /\ ScoreAnswered(response)
    /\ response.status = 200
    /\ response.score > 0
    /\ Len(games[response.game_id]) >= 2
    /\ response.records = games[response.game_id]


\* The position of the roll is illegal after history h, whatever its pins:
\* a second ball with no first ball before it, or a first ball while a frame
\* is open.
TransitionIllegal(h, roll) ==
    \/ /\ roll[1] = 2
       /\ (h = <<>> \/ IsSecondBall(h[Len(h)]) \/ IsStrike(h[Len(h)]))
    \/ /\ roll[1] = 1
       /\ h # <<>>
       /\ IsFirstBall(h[Len(h)])

\* The one reason the fixed order gives a roll that is not accepted after
\* history h: structure first, then the position, then the frame overflow.
ReasonInOrder(h, roll) ==
    IF ~WellFormed(roll) THEN "Invalid roll input"
    ELSE IF TransitionIllegal(h, PayloadRoll(roll))
         THEN IF PayloadRoll(roll)[1] = 1 THEN "roll number 1 invalid"
              ELSE "roll number 2 invalid"
    ELSE "Roll points cannot be greater than 10 in a frame"

\* C16: every roll that is not accepted gets exactly one reason, chosen in a
\* fixed order: the structural checks first, then the four frame-transition
\* checks, then the frame-overflow check last.  (A rejection leaves the
\* history unchanged, so the history of the game is the one the roll was
\* checked against.)
C16_ReasonsInFixedOrder ==
    (RollAnswered(response) /\ response.status # 200)
        => /\ response.status = 400
           /\ response.error =
                ReasonInOrder(games[response.game_id], response.roll)

\* The same for the rolls the handler answers with a reason (status 400).
ReasonsInOrderWhenAnswered ==
    (RollAnswered(response) /\ response.status = 400)
        => response.error =
             ReasonInOrder(games[response.game_id], response.roll)

\* [2,11] on a fresh game is reported as "Invalid roll input", and a second
\* ball after a strike as "roll number 2 invalid".
ReasonsInOrderWitness ==
    \/ /\ RollAnswered(response)
       /\ games[response.game_id] = <<>>
       /\ response.roll = RollList(<<IntElem(2), IntElem(11)>>)
       /\ response.error = "Invalid roll input"
    \/ /\ RollAnswered(response)
       /\ games[response.game_id] = <<<<1, 10>>>>
       /\ response.roll = RollList(<<IntElem(2), IntElem(5)>>)
       /\ response.error = "roll number 2 invalid"


\* C17: record_roll changes at most the roll history of the addressed game:
\* on acceptance it appends exactly the candidate roll at the end of that
\* history, leaving the earlier rolls, every other game's history and the id
\* counter unchanged; on any rejection (invalid input, invalid roll number,
\* frame overflow, game not found) it changes nothing.
C17_RecordRollFrame ==
    [][response'.op = "record_roll"
         => /\ game_id_counter' = game_id_counter
            /\ IF response'.status = 200
               THEN /\ response'.game_id \in DOMAIN games
                    /\ games' = [games EXCEPT ![response'.game_id] =
                                   Append(@, PayloadRoll(response'.roll))]
               ELSE games' = games]_vars

\* A second ball accepted in game 2 while game 1 holds a roll.
C17_Witness ==
    /\ response.op = "record_roll"
    /\ response.status = 200
    /\ response.game_id = 2
    /\ Len(games[2]) = 2
    /\ games[2][2] = PayloadRoll(response.roll)
    /\ games[1] # <<>>


\* The step is line 31 of a create_game request of thread t.
StoresGame(t) == pc[t] = "cg_store" /\ pc'[t] = "cg_load"

\* C18: under any interleaving of concurrent create_game requests (reading
\* the counter, storing the empty history and incrementing the counter being
\* separate steps), each request receives a distinct game id (the id a
\* request registers is not yet a game), and no create_game replaces with an
\* empty list the history of a game for which rolls were already recorded.
C18_ConcurrentCreatesDistinct ==
    [][/\ \A t \in Threads :
            StoresGame(t) => local[t].game_id \notin DOMAIN games
       /\ \A g \in DOMAIN games :
            games[g] # <<>> => (g \in DOMAIN games' /\ games'[g] # <<>>)]_vars


\* The history cut down to its last roll.
LastOnly(h) == IF h = <<>> THEN <<>> ELSE <<h[Len(h)]>>

\* The handler accepts the roll for the game in the present state.
Accepts(game_id, roll) ==
    record_roll_long(game_id, roll) /\ response'.status = 200

\* C19: acceptance of a roll depends only on the last roll and the candidate,
\* so a game never reaches a terminal state: from every reachable roll
\* history, of any length (also after 10 or more completed frames), at least
\* one candidate roll is accepted, and a well-formed candidate is accepted
\* exactly when the bowling rule allows it after the last roll alone (so two
\* histories with the same last roll give the same decision).
C19_NeverTerminal ==
    \A g \in DOMAIN games :
        Len(games[g]) < MaxFrameRolls
            => /\ \E roll \in LongCandidates : ENABLED Accepts(g, roll)
               /\ \A roll \in LongCandidates :
                    WellFormed(roll)
                        => (ENABLED Accepts(g, roll)
                              <=> Legal(LastOnly(games[g]), PayloadRoll(roll)))

\* A roll accepted after ten strikes, that is after ten completed frames.
C19_Witness ==
    /\ response.op = "record_roll"
    /\ response.status = 200
    /\ response.game_id = 1
    /\ Len(games[1]) >= 11
    /\ \A i \in 1..10 : games[1][i] = <<1, 10>>


\* The history ends in the frame [1,0], [2,10].
EndsInZeroTen(h) ==
    /\ Len(h) >= 2
    /\ h[Len(h) - 1] = <<1, 0>>
    /\ h[Len(h)] = <<2, 10>>

\* C20: on every validator-built history each iteration of the
\* calculate_current_score loop starts at a roll whose frame_position is 1,
\* the iterations start at exactly the first balls, and a first ball of fewer
\* than 10 pins is paired with the second ball of its own frame (the roll
\* after it, which starts no iteration); a second ball of 10 pins after a
\* first ball of 0 is scored as a spare and never as a strike.
C20_ScorerFramesAligned ==
    /\ \A g \in DOMAIN games :
         LET h == games[g]
             starts == LoopStarts(h, 0)
         IN /\ \A k \in starts : h[k + 1][1] = 1
            /\ starts = {k \in 0..(Len(h) - 1) : h[k + 1][1] = 1}
            /\ \A k \in starts :
                 (h[k + 1][2] < 10 /\ k + 1 < Len(h))
                     => h[k + 2][1] = 2 /\ (k + 1) \notin starts
    /\ (/\ ScoreAnswered(response)
        /\ response.status = 200
        /\ EndsInZeroTen(games[response.game_id]))
         => \A e \in response.score_list : e.where = "Spare"

\* A get_score on [[1,10],[1,0],[2,10]]: two iterations, the second one a
\* spare.
C20_Witness ==
    /\ ScoreAnswered(response)
    /\ response.status = 200
    /\ games[response.game_id] = <<<<1, 10>>, <<1, 0>>, <<2, 10>>>>
    /\ LoopStarts(games[response.game_id], 0) = {0, 1}
    /\ \E e \in response.score_list : e.where = "Spare" /\ e.score = 30


\* The iterations of LoopStarts are those of ScoreLoop: when the loop ends
\* without raising, it ends at the index the last iteration advances to.
LoopStartsMatchScoreLoop ==
    \A g \in DOMAIN games :
        LET h == games[g]
            starts == LoopStarts(h, 0)
            r == ScoreLoop(h, 0, 0, "unbound")
        IN (r.exc = "none" /\ h # <<>>)
               => \E k \in starts :
                    /\ \A j \in starts : j <= k
                    /\ r.frame_index = k + Advance(h, k)
                    /\ r.frame_index = Len(h)


\* The history ends at a frame boundary: its last roll is a strike or a
\* second ball.
AtFrameBoundary(h) ==
    h # <<>> /\ (IsStrike(h[Len(h)]) \/ IsSecondBall(h[Len(h)]))

\* The histories the stored history h grew from that end at a frame
\* boundary (h itself included).
BoundaryPrefixes(h) ==
    {SubSeq(h, 1, n) : n \in {m \in 1..Len(h) : AtFrameBoundary(SubSeq(h, 1, m))}}

\* C21: the score of a game never decreases as accepted rolls are appended:
\* for a validator-built history h and a validator-built extension h' of h,
\* both ending at a frame boundary (last roll a strike or a second ball),
\* total(h) <= total(h'), and the total is never negative.
C21_ScoreNeverDecreases ==
    /\ \A g \in DOMAIN games :
         AtFrameBoundary(games[g])
             => \A h \in BoundaryPrefixes(games[g]) :
                  /\ calculate_current_score(h).exc = "none"
                  /\ calculate_current_score(games[g]).exc = "none"
                  /\ 0 <= calculate_current_score(h).total
                  /\ calculate_current_score(h).total
                       <= calculate_current_score(games[g]).total
    /\ (ScoreAnswered(response) /\ response.status = 200)
         => response.score >= 0

\* A second ball accepted that closes the second frame of a game: the
\* history extends one that ended at a frame boundary with a smaller total.
C21_Witness ==
    /\ response.op = "record_roll"
    /\ response.status = 200
    /\ response.game_id \in DOMAIN games
    /\ LET h == games[response.game_id]
       IN /\ Len(h) = 3
          /\ IsSecondBall(h[3])
          /\ \E p \in BoundaryPrefixes(h) :
               /\ Len(p) = 1
               /\ calculate_current_score(p).total
                    < calculate_current_score(h).total

====
